---- MODULE Spec2Model ----
(***************************************************************************)
(* The timeline of the Director video editor: tracks of clips, the         *)
(* per-track pointer gestures (move, left/right trim), split, delete and   *)
(* asset placement, with the notifications the Timeline emits.  Spec is    *)
(* the timeline driven by the editor's handlers; SpecApi is the Timeline   *)
(* driven through its methods and signals by a caller (add_clip,           *)
(* clip_split, _delete_clip, remove_clip, load_clips, get_clips_data).     *)
(* SpecEditor is the EditorWidget's save logic: asset placement, the       *)
(* clip_changed slot and the auto-save timer, with saves that may fail.    *)
(*                                                                         *)
(* Times are integer milliseconds, pointer positions integer pixels.       *)
(* The zoom factor is a Python float in the program; here it is the exact  *)
(* rational <<numerator, denominator>>.  For the zoom levels and pointer   *)
(* positions of Spec and SpecApi the float computations of _time_to_x and  *)
(* _x_to_time give the same integers as the exact ones.  SpecZoom is the   *)
(* zoom and scroll state alone, driven by set_zoom, the toolbar buttons,   *)
(* Ctrl+wheel and set_offset; its wheel factors 1.1 and 0.9 are not exact  *)
(* in binary floating point, so there the model computes with the exact    *)
(* decimal factors.                                                        *)
(*                                                                         *)
(* An Optional[Clip] is a sequence: <<>> is None, <<c>> is the clip c.     *)
(* Track positions are 1-based here; Clip.track_index keeps the program's  *)
(* 0-based index, so the track at position p has index p - 1.              *)
(***************************************************************************)
EXTENDS Integers, Sequences, FiniteSets, TLC

VARIABLES
    tracks,     \* Timeline._tracks: sequence of Track records
    widgets,    \* Timeline._track_widgets: one TimelineTrackWidget per track
    zoom,       \* Timeline._zoom
    uuids,      \* number of ids minted by uuid.uuid4() so far
    emitted,    \* signals the Timeline emitted during the last handler
    raised,     \* exception that left the last handler, "NONE" when it returned
    gesture,    \* history: per widget, what the last left press hit
    call,       \* history: the last call of a Timeline method, with its inputs
    steps,      \* number of handlers run so far
    editor      \* EditorWidget._needs_save, and whether its last save failed

vars == <<tracks, widgets, zoom, uuids, emitted, raised, gesture, call, steps, editor>>

-----------------------------------------------------------------------------
(* Program constants *)

MIN_DURATION == 500
TRIM_HANDLE_WIDTH == 8
BASE_PPS == 100
MS_PER_SECOND == 1000
DEFAULT_CLIP_DURATION == 5000
ZOOM_MIN == <<1, 10>>
ZOOM_MAX == <<10, 1>>
ZOOM_OUT_FACTOR == <<4, 5>>
ZOOM_IN_FACTOR == <<5, 4>>
WHEEL_OUT_FACTOR == <<9, 10>>
WHEEL_IN_FACTOR == <<11, 10>>

(* Bounds of the model *)

MaxSteps == 5
MaxAssets == 2
MaxZoomTerm == 5
MaxCalls == 3
MaxTracks == 5
MaxClips == 3
MaxWheelTerm == 1500
PointerXs == {-20, 0, 20, 300, 305, 400, 500}
Offsets == {0, 25}
Assets ==
    { [name |-> "film", file_path |-> "film.mp4", asset_type |-> "VIDEO", duration_ms |-> 5000],
      [name |-> "logo", file_path |-> "logo.png", asset_type |-> "IMAGE", duration_ms |-> 0],
      [name |-> "song", file_path |-> "song.mp3", asset_type |-> "AUDIO", duration_ms |-> 2000] }

-----------------------------------------------------------------------------
(* Arithmetic *)

Max(a, b) == IF a >= b THEN a ELSE b
Min(a, b) == IF a <= b THEN a ELSE b
Abs(a) == IF a >= 0 THEN a ELSE -a

\* Python's int(a / b) for b > 0: truncation toward zero.
TruncDiv(a, b) == IF a >= 0 THEN a \div b ELSE -((-a) \div b)

RECURSIVE GCD(_, _)
GCD(a, b) == IF b = 0 THEN a ELSE GCD(b, a % b)

RatNorm(r) == LET g == GCD(r[1], r[2]) IN <<r[1] \div g, r[2] \div g>>
RatMul(a, b) == RatNorm(<<a[1] * b[1], a[2] * b[2]>>)
RatLess(a, b) == a[1] * b[2] < b[1] * a[2]
RatMax(a, b) == IF RatLess(a, b) THEN b ELSE a
RatMin(a, b) == IF RatLess(b, a) THEN b ELSE a

\* A clamp from above only.
ClampZoomAbove(z) == RatMin(z, ZOOM_MAX)

\* max(0.1, min(zoom, 10.0))
ClampZoom(z) == RatMax(ZOOM_MIN, RatMin(z, ZOOM_MAX))

-----------------------------------------------------------------------------
(* Sequences *)

ReplaceAt(s, i, v) == [s EXCEPT ![i] = v]
InsertAt(s, i, v) == SubSeq(s, 1, i - 1) \o <<v>> \o SubSeq(s, i, Len(s))
RemoveAt(s, i) == SubSeq(s, 1, i - 1) \o SubSeq(s, i + 1, Len(s))
FirstOf(S) == IF S = {} THEN 0 ELSE CHOOSE i \in S : \A j \in S : i <= j

\* Index of the first clip of the list with this id, 0 when there is none:
\* the "for i, c in enumerate(clips): if c.id == id" scan of every mutation.
IndexOfId(clips, id) == FirstOf({i \in 1..Len(clips) : clips[i].id = id})

\* A lookup of a clip by its id alone.
IndexOfClipById(clips, c) == IndexOfId(clips, c.id)

\* list.index by dataclass equality (all fields), 0 when absent.
IndexOfClip(clips, c) == FirstOf({i \in 1..Len(clips) : clips[i] = c})

-----------------------------------------------------------------------------
(* Clip and Track *)

NoClip == <<>>
Some(c) == <<c>>

EndTime(c) == c.start_time + c.duration

SplitId(id) == [id EXCEPT !.splits = @ + 1]
SplitName(name) == [name EXCEPT !.copies = @ + 1]

NewTrack(n, name, type) ==
    [id |-> n, name |-> name, track_type |-> type, clips |-> <<>>]

\* track is the id of the Track the widget was constructed with.
NewWidget(z, track) ==
    [track |-> track, zoom |-> z, offset |-> 0, selected_clip |-> NoClip,
     dragging |-> FALSE, drag_start_x |-> 0, drag_clip_start |-> 0,
     trimming |-> FALSE, trim_handle |-> "NONE", trim_clip |-> NoClip,
     trim_original_start |-> 0, trim_original_duration |-> 0]

\* History of the last left press on a widget, kept for the properties only:
\* kind is the handle the press hit ("LEFT", "RIGHT", "NONE" for the body),
\* "MISS" when it hit no clip, "IDLE" after a release and "GONE" once the
\* pressed clip was deleted; slot is the pressed clip's current position in
\* the track, clip its value at press and x the press position; interrupted
\* tells that a context menu was opened on a clip of the track since the press.
NoGesture == [kind |-> "IDLE", slot |-> 0, clip |-> NoClip, x |-> 0,
              interrupted |-> FALSE]

\* History of the last handler when it was a direct call of a Timeline method
\* (op names the method, the other fields are its arguments); NoCall after a
\* pointer, menu or toolbar handler.
NoCall == [op |-> "NONE"]

-----------------------------------------------------------------------------
(* CoordinateMapper of a track widget *)

\* int(time_ms * ((100 * zoom) / 1000) - offset)
TimeToX(wd, t) ==
    TruncDiv(t * BASE_PPS * wd.zoom[1] - wd.offset * MS_PER_SECOND * wd.zoom[2],
             MS_PER_SECOND * wd.zoom[2])

\* A conversion of x that leaves the scroll offset out.
XToTimeWithoutOffset(wd, x) ==
    TruncDiv(x * MS_PER_SECOND * wd.zoom[2], BASE_PPS * wd.zoom[1])

\* int((x + offset) / ((100 * zoom) / 1000))
XToTime(wd, x) ==
    TruncDiv((x + wd.offset) * MS_PER_SECOND * wd.zoom[2], BASE_PPS * wd.zoom[1])

\* Position in the track of the first clip under x, 0 when there is none.
ClipAt(w, x) ==
    LET wd == widgets[w]
        clips == tracks[w].clips
        Hit(c) == LET clip_x == TimeToX(wd, c.start_time)
                      clip_width == TimeToX(wd, EndTime(c)) - clip_x
                  IN  clip_x <= x /\ x <= clip_x + clip_width
    IN  FirstOf({i \in 1..Len(clips) : Hit(clips[i])})

GetTrimHandle(wd, x, clip) ==
    LET clip_x == TimeToX(wd, clip.start_time)
        clip_end_x == TimeToX(wd, EndTime(clip))
    IN  IF Abs(x - clip_x) <= TRIM_HANDLE_WIDTH THEN "LEFT"
        ELSE IF Abs(x - clip_end_x) <= TRIM_HANDLE_WIDTH THEN "RIGHT"
        ELSE "NONE"

-----------------------------------------------------------------------------
(* Initial state: Timeline.__init__ with its two default tracks *)

Init ==
    /\ tracks = << NewTrack(0, "Video 1", "VIDEO"), NewTrack(1, "Audio 1", "AUDIO") >>
    /\ widgets = << NewWidget(<<1, 1>>, 0), NewWidget(<<1, 1>>, 1) >>
    /\ zoom = <<1, 1>>
    /\ uuids = 0
    /\ emitted = <<>>
    /\ raised = "NONE"
    /\ gesture = << NoGesture, NoGesture >>
    /\ call = NoCall
    /\ steps = 0
    /\ editor = [needs_save |-> FALSE, save_failed |-> FALSE]

\* In Spec, SpecApi and SpecZoom every save of the project succeeds (or no
\* editor is attached to the Timeline), so the editor's save state stays as
\* it is; SpecEditor is the editor with saves that may fail.
SavesSucceed == UNCHANGED editor

Tick == steps < MaxSteps /\ steps' = steps + 1 /\ SavesSucceed

\* A direct call of a Timeline method.
CallTick == steps < MaxCalls /\ steps' = steps + 1 /\ SavesSucceed

\* A handler of the editor.
EditorTick == steps < MaxSteps /\ steps' = steps + 1

\* The handler returns normally.
Returns == raised' = "NONE"

-----------------------------------------------------------------------------
(* EditorWidget._add_asset_to_timeline, with Timeline.add_clip *)

AllClips ==
    LET RECURSIVE Flat(_)
        Flat(p) == IF p > Len(tracks) THEN <<>> ELSE tracks[p].clips \o Flat(p + 1)
    IN  Flat(1)

\* The greatest end_time of all the clips, whatever their track.
RECURSIVE LastEndAnyTrack(_, _, _)
LastEndAnyTrack(clips, track_index, acc) ==
    IF clips = <<>> THEN acc
    ELSE LastEndAnyTrack(Tail(clips), track_index, Max(acc, EndTime(Head(clips))))

RECURSIVE LastEnd(_, _, _)
LastEnd(clips, track_index, acc) ==
    IF clips = <<>> THEN acc
    ELSE LastEnd(Tail(clips), track_index,
                 IF Head(clips).track_index = track_index
                 THEN Max(acc, EndTime(Head(clips))) ELSE acc)

\* A clip that takes the asset's duration as it is, known or not.
AssetClipOfRawDuration(asset, track_index, id) ==
    [id |-> id,
     name |-> [base |-> asset.name, copies |-> 0],
     file_path |-> asset.file_path,
     track_index |-> track_index,
     start_time |-> LastEnd(AllClips, track_index, 0),
     duration |-> asset.duration_ms,
     in_point |-> 0,
     out_point |-> asset.duration_ms,
     color |-> IF asset.asset_type = "VIDEO" THEN "accent" ELSE "success"]

AssetClip(asset, track_index, id) ==
    LET d == IF asset.duration_ms > 0 THEN asset.duration_ms ELSE DEFAULT_CLIP_DURATION
    IN  [id |-> id,
         name |-> [base |-> asset.name, copies |-> 0],
         file_path |-> asset.file_path,
         track_index |-> track_index,
         start_time |-> LastEnd(AllClips, track_index, 0),
         duration |-> d,
         in_point |-> 0,
         out_point |-> d,
         color |-> IF asset.asset_type = "VIDEO" THEN "accent" ELSE "success"]

\* An add_clip that puts the clip in front of the track's clips.
AddClipInFront(trks, track_index, clip) ==
    IF 0 <= track_index /\ track_index < Len(trks)
    THEN [trks EXCEPT ![track_index + 1].clips = <<clip>> \o @]
    ELSE trks

AddClip(trks, track_index, clip) ==
    IF 0 <= track_index /\ track_index < Len(trks)
    THEN [trks EXCEPT ![track_index + 1].clips = Append(@, clip)]
    ELSE trks

AddAssetToTimeline(asset) ==
    /\ Tick
    /\ Returns
    /\ call' = NoCall
    /\ uuids < MaxAssets
    /\ LET track_index == IF asset.asset_type \in {"VIDEO", "IMAGE"} THEN 0 ELSE 1
           clip == AssetClip(asset, track_index, [base |-> uuids + 1, splits |-> 0])
       IN  tracks' = AddClip(tracks, track_index, clip)
    /\ uuids' = uuids + 1
    /\ emitted' = <<>>
    /\ UNCHANGED <<widgets, zoom, gesture>>

-----------------------------------------------------------------------------
(* EditorWidget._mark_needs_save, _auto_save and _save_project; saved is    *)
(* what ProjectData.save() returns                                         *)

\* _save_project: the history records whether this save failed.
SaveProject(ed, saved) == [ed EXCEPT !.save_failed = ~saved]

\* needs_save = True; _save_project(); needs_save = False
MarkNeedsSave(ed, saved) ==
    LET marked == [ed EXCEPT !.needs_save = TRUE]
    IN  [SaveProject(marked, saved) EXCEPT !.needs_save = FALSE]

\* _add_asset_to_timeline up to and including its _mark_needs_save().
PlaceAsset(asset, saved) ==
    /\ EditorTick
    /\ Returns
    /\ call' = NoCall
    /\ uuids < MaxAssets
    /\ LET track_index == IF asset.asset_type \in {"VIDEO", "IMAGE"} THEN 0 ELSE 1
           clip == AssetClip(asset, track_index, [base |-> uuids + 1, splits |-> 0])
       IN  tracks' = AddClip(tracks, track_index, clip)
    /\ uuids' = uuids + 1
    /\ emitted' = <<>>
    /\ editor' = MarkNeedsSave(editor, saved)
    /\ UNCHANGED <<widgets, zoom, gesture>>

\* The slot connected to Timeline.clip_changed.
ClipChangedSlot(saved) ==
    /\ EditorTick
    /\ Returns
    /\ call' = NoCall
    /\ emitted' = <<"clip_changed">>
    /\ editor' = MarkNeedsSave(editor, saved)
    /\ UNCHANGED <<tracks, widgets, zoom, uuids, gesture>>

\* The 30-second timer: saves only when needs_save is set.
AutoSave(saved) ==
    /\ EditorTick
    /\ Returns
    /\ call' = [op |-> "auto_save"]
    /\ emitted' = <<>>
    /\ editor' = IF editor.needs_save
                 THEN [SaveProject(editor, saved) EXCEPT !.needs_save = FALSE]
                 ELSE editor
    /\ UNCHANGED <<tracks, widgets, zoom, uuids, gesture>>

-----------------------------------------------------------------------------
(* TimelineTrackWidget.mousePressEvent, left button *)

PressWidget(wd, x, clip) ==
    LET handle == GetTrimHandle(wd, x, clip)
    IN  IF handle # "NONE"
        THEN [wd EXCEPT !.selected_clip = Some(clip),
                        !.trimming = TRUE,
                        !.trim_handle = handle,
                        !.trim_clip = Some(clip),
                        !.trim_original_start = clip.start_time,
                        !.trim_original_duration = clip.duration,
                        !.drag_start_x = x]
        ELSE [wd EXCEPT !.selected_clip = Some(clip),
                        !.dragging = TRUE,
                        !.drag_start_x = x,
                        !.drag_clip_start = clip.start_time]

MousePress(w, x) ==
    /\ Tick
    /\ Returns
    /\ call' = NoCall
    /\ LET i == ClipAt(w, x)
       IN  IF i # 0
           THEN LET clip == tracks[w].clips[i]
                IN  /\ widgets' = [widgets EXCEPT ![w] = PressWidget(@, x, clip)]
                    /\ emitted' = <<"clip_selected">>
                    /\ gesture' = [gesture EXCEPT ![w] =
                           [kind |-> GetTrimHandle(widgets[w], x, clip),
                            slot |-> i, clip |-> Some(clip), x |-> x,
                            interrupted |-> FALSE]]
           ELSE /\ widgets' = widgets
                /\ emitted' = <<>>
                /\ gesture' = [gesture EXCEPT ![w] =
                       [kind |-> "MISS", slot |-> 0, clip |-> NoClip, x |-> 0,
                        interrupted |-> FALSE]]
    /\ UNCHANGED <<tracks, zoom, uuids>>

-----------------------------------------------------------------------------
(* TimelineTrackWidget.mouseMoveEvent *)

\* The Clip built by the left-trim branch from the stored clip c.
LeftTrimmed(wd, c, dx_time) ==
    LET new_start == Max(0, wd.trim_original_start + dx_time)
        duration_change == wd.trim_original_start - new_start
        new_duration == Max(MIN_DURATION, wd.trim_original_duration + duration_change)
    IN  [c EXCEPT !.start_time = new_start,
                  !.duration = new_duration,
                  !.in_point = c.in_point + (wd.trim_original_start - new_start)]

\* The Clip built by the right-trim branch from the stored clip c.
RightTrimmed(wd, c, dx_time) ==
    LET new_duration == Max(MIN_DURATION, wd.trim_original_duration + dx_time)
    IN  [c EXCEPT !.duration = new_duration,
                  !.out_point = c.in_point + new_duration]

\* A drag that follows the pointer to the left of time 0.
DraggedUnclamped(wd, c, x) ==
    LET dx == x - wd.drag_start_x
    IN  [c EXCEPT !.start_time = wd.drag_clip_start + XToTime(wd, dx) - XToTime(wd, 0)]

\* The Clip built by the drag branch from the stored clip c.
Dragged(wd, c, x) ==
    LET dx == x - wd.drag_start_x
        new_time == Max(0, wd.drag_clip_start + XToTime(wd, dx) - XToTime(wd, 0))
    IN  [c EXCEPT !.start_time = new_time]

TrimBranch(wd) == wd.trimming /\ wd.trim_clip # NoClip
DragBranch(wd) == ~TrimBranch(wd) /\ wd.dragging /\ wd.selected_clip # NoClip

MouseMove(w, x) ==
    /\ Tick
    /\ Returns
    /\ call' = NoCall
    /\ LET wd == widgets[w]
           clips == tracks[w].clips
       IN  IF TrimBranch(wd)
           THEN LET dx_time == XToTime(wd, x) - XToTime(wd, wd.drag_start_x)
                    i == IndexOfId(clips, wd.trim_clip[1].id)
                    new == IF wd.trim_handle = "LEFT"
                           THEN LeftTrimmed(wd, clips[i], dx_time)
                           ELSE RightTrimmed(wd, clips[i], dx_time)
                IN  IF i # 0 /\ wd.trim_handle \in {"LEFT", "RIGHT"}
                    THEN /\ tracks' = [tracks EXCEPT ![w].clips = ReplaceAt(@, i, new)]
                         /\ widgets' = [widgets EXCEPT ![w].trim_clip = Some(new)]
                    ELSE UNCHANGED <<tracks, widgets>>
           ELSE IF DragBranch(wd)
           THEN LET i == IndexOfId(clips, wd.selected_clip[1].id)
                    new == Dragged(wd, clips[i], x)
                IN  IF i # 0
                    THEN /\ tracks' = [tracks EXCEPT ![w].clips = ReplaceAt(@, i, new)]
                         /\ widgets' = [widgets EXCEPT ![w].selected_clip = Some(new)]
                    ELSE UNCHANGED <<tracks, widgets>>
           ELSE UNCHANGED <<tracks, widgets>>
    /\ emitted' = <<>>
    /\ UNCHANGED <<zoom, uuids, gesture>>

-----------------------------------------------------------------------------
(* TimelineTrackWidget.mouseReleaseEvent; clip_trimmed and clip_moved are   *)
(* wired to Timeline.clip_changed in Timeline.add_track                    *)

\* A release that clears the two flags only.
ReleaseWidgetFlagsOnly(wd) == [wd EXCEPT !.dragging = FALSE, !.trimming = FALSE]

ReleaseWidget(wd) ==
    [wd EXCEPT !.dragging = FALSE,
               !.trimming = FALSE,
               !.trim_handle = "NONE",
               !.trim_clip = NoClip]

\* A release that notifies of a finished move only.
ReleaseSignalsOfMove(wd) ==
    IF wd.dragging /\ wd.selected_clip # NoClip THEN <<"clip_changed">> ELSE <<>>

\* What the Timeline emits for the widget's clip_trimmed or clip_moved.
ReleaseSignals(wd) ==
    IF TrimBranch(wd) THEN <<"clip_changed">>
    ELSE IF wd.dragging /\ wd.selected_clip # NoClip
         THEN <<"clip_changed">>
         ELSE <<>>

MouseRelease(w) ==
    /\ Tick
    /\ Returns
    /\ call' = NoCall
    /\ emitted' = ReleaseSignals(widgets[w])
    /\ widgets' = [widgets EXCEPT ![w] = ReleaseWidget(@)]
    /\ gesture' = [gesture EXCEPT ![w] = NoGesture]
    /\ UNCHANGED <<tracks, zoom, uuids>>

-----------------------------------------------------------------------------
(* Timeline._on_clip_split *)

\* Position of the first track holding a clip with this id, 0 when none does.
TrackOfId(trks, id) ==
    FirstOf({p \in 1..Len(trks) : IndexOfId(trks[p].clips, id) # 0})

SplitFirst(clip, split_time) ==
    LET first_duration == split_time - clip.start_time
    IN  [clip EXCEPT !.duration = first_duration,
                     !.out_point = clip.in_point + first_duration]

SplitSecond(clip, split_time) ==
    LET first_duration == split_time - clip.start_time
        second_duration == clip.duration - first_duration
    IN  [clip EXCEPT !.id = SplitId(clip.id),
                     !.name = SplitName(clip.name),
                     !.start_time = split_time,
                     !.duration = second_duration,
                     !.in_point = clip.in_point + first_duration]

\* A split that also cuts at the clip's two boundaries.
SplitAppliesAtBoundary(trks, clip, split_time) ==
    /\ TrackOfId(trks, clip.id) # 0
    /\ clip.start_time <= split_time
    /\ split_time <= EndTime(clip)

SplitApplies(trks, clip, split_time) ==
    /\ TrackOfId(trks, clip.id) # 0
    /\ clip.start_time < split_time
    /\ split_time < EndTime(clip)

\* The tracks after _on_clip_split(clip, split_time).
OnClipSplit(trks, clip, split_time) ==
    IF SplitApplies(trks, clip, split_time)
    THEN LET p == TrackOfId(trks, clip.id)
             i == IndexOfId(trks[p].clips, clip.id)
         IN  [trks EXCEPT ![p].clips =
                 InsertAt(ReplaceAt(@, i, SplitFirst(clip, split_time)),
                          i + 1, SplitSecond(clip, split_time))]
    ELSE trks

\* The history of presses follows the slots that a split moves.
GestureAfterSplit(trks, clip, split_time) ==
    IF SplitApplies(trks, clip, split_time)
    THEN LET p == TrackOfId(trks, clip.id)
             i == IndexOfId(trks[p].clips, clip.id)
         IN  [gesture EXCEPT ![p].slot = IF @ > i THEN @ + 1 ELSE @]
    ELSE gesture

-----------------------------------------------------------------------------
(* TimelineTrackWidget._delete_clip with Timeline._on_clip_deleted *)

GestureAfterRemove(p, j) ==
    [gesture EXCEPT ![p] =
        IF @.slot = j THEN [@ EXCEPT !.kind = "GONE", !.slot = 0]
        ELSE IF @.slot > j THEN [@ EXCEPT !.slot = @ - 1]
        ELSE @]

-----------------------------------------------------------------------------
(* TimelineTrackWidget._show_context_menu and the menu entry chosen *)

MenuChoices == {"split", "delete", "dismiss"}

\* The history notes a menu opened during an unreleased press on the track.
Interrupt(g, w) ==
    [g EXCEPT ![w].interrupted = @ \/ g[w].kind \in {"LEFT", "RIGHT", "NONE"}]

ContextMenu(w, x, choice) ==
    /\ Tick
    /\ Returns
    /\ call' = NoCall
    /\ LET wd == widgets[w]
           i == ClipAt(w, x)
       IN  IF i = 0
           THEN /\ emitted' = <<>>
                /\ UNCHANGED <<tracks, widgets, gesture>>
           ELSE LET clip == tracks[w].clips[i]
                    split_pos == XToTime(wd, x)
                    j == IndexOfClip(tracks[w].clips, clip)
                IN  CASE choice = "split" ->
                           /\ tracks' = OnClipSplit(tracks, clip, split_pos)
                           /\ widgets' = [widgets EXCEPT ![w].selected_clip = Some(clip)]
                           /\ gesture' = Interrupt(GestureAfterSplit(tracks, clip, split_pos), w)
                           /\ emitted' = IF SplitApplies(tracks, clip, split_pos)
                                         THEN <<"clip_selected", "clip_changed">>
                                         ELSE <<"clip_selected">>
                      [] choice = "delete" ->
                           /\ tracks' = [tracks EXCEPT ![w].clips = RemoveAt(@, j)]
                           /\ widgets' = [widgets EXCEPT ![w].selected_clip = NoClip]
                           /\ gesture' = Interrupt(GestureAfterRemove(w, j), w)
                           /\ emitted' = <<"clip_selected", "clip_deleted", "clip_changed">>
                      [] OTHER ->
                           /\ widgets' = [widgets EXCEPT ![w].selected_clip = Some(clip)]
                           /\ emitted' = <<"clip_selected">>
                           /\ gesture' = Interrupt(gesture, w)
                           /\ UNCHANGED tracks
    /\ UNCHANGED <<zoom, uuids>>

-----------------------------------------------------------------------------
(* Timeline.remove_clip *)

ClipIds == {AllClips[k].id : k \in 1..Len(AllClips)}
AbsentId == [base |-> 0, splits |-> 0]

RemoveClip(clip_id) ==
    /\ Tick
    /\ Returns
    /\ call' = [op |-> "remove_clip", clip_id |-> clip_id]
    /\ LET p == TrackOfId(tracks, clip_id)
       IN  IF p # 0
           THEN LET j == IndexOfId(tracks[p].clips, clip_id)
                IN  /\ tracks' = [tracks EXCEPT ![p].clips = RemoveAt(@, j)]
                    /\ gesture' = GestureAfterRemove(p, j)
                    /\ emitted' = <<"clip_changed">>
           ELSE /\ emitted' = <<>>
                /\ UNCHANGED <<tracks, gesture>>
    /\ UNCHANGED <<widgets, zoom, uuids>>

-----------------------------------------------------------------------------
(* Timeline.set_zoom, from the toolbar buttons; TimelineTrackWidget.set_offset *)

ZoomWithinBounds(z) == z[1] <= MaxZoomTerm /\ z[2] <= MaxZoomTerm

SetZoom(z) ==
    /\ Tick
    /\ Returns
    /\ call' = NoCall
    /\ ZoomWithinBounds(ClampZoom(z))
    /\ zoom' = ClampZoom(z)
    /\ widgets' = [w \in DOMAIN widgets |-> [widgets[w] EXCEPT !.zoom = ClampZoom(z)]]
    /\ emitted' = <<>>
    /\ UNCHANGED <<tracks, uuids, gesture>>

ZoomOut == SetZoom(RatMul(zoom, ZOOM_OUT_FACTOR))
ZoomIn == SetZoom(RatMul(zoom, ZOOM_IN_FACTOR))

SetOffset(w, offset) ==
    /\ Tick
    /\ Returns
    /\ call' = NoCall
    /\ widgets' = [widgets EXCEPT ![w].offset = offset]
    /\ emitted' = <<>>
    /\ UNCHANGED <<tracks, zoom, uuids, gesture>>

-----------------------------------------------------------------------------
(* Timeline.set_zoom called with any value, from the toolbar buttons and    *)
(* from Timeline.wheelEvent                                                *)

\* Values a caller passes to set_zoom, and scroll offsets of a track widget.
ZoomCalls == {<<-1, 1>>, <<0, 1>>, <<1, 20>>, <<1, 10>>, <<1, 3>>, <<1, 1>>,
              <<10, 1>>, <<100, 1>>}
ZoomOffsets == {-30, 0, 7, 25}
WheelDeltas == {-120, 0, 120}

ZoomTermsWithin(z) == z[1] <= MaxWheelTerm /\ z[2] <= MaxWheelTerm

\* The body of set_zoom.
ZoomTo(z) ==
    /\ ZoomTermsWithin(ClampZoom(z))
    /\ zoom' = ClampZoom(z)
    /\ widgets' = [w \in DOMAIN widgets |-> [widgets[w] EXCEPT !.zoom = ClampZoom(z)]]
    /\ emitted' = <<>>
    /\ UNCHANGED <<tracks, uuids, gesture>>

SetZoomCall(z) ==
    /\ Tick
    /\ Returns
    /\ call' = [op |-> "set_zoom", zoom |-> z]
    /\ ZoomTo(z)

ToolbarZoom(factor) ==
    /\ Tick
    /\ Returns
    /\ call' = NoCall
    /\ ZoomTo(RatMul(zoom, factor))

\* With Ctrl held the wheel zooms in for a positive delta and out for any
\* other; without Ctrl the event goes to the base class.
WheelEvent(ctrl, delta) ==
    /\ Tick
    /\ Returns
    /\ call' = [op |-> "wheel", ctrl |-> ctrl, delta |-> delta]
    /\ IF ctrl
       THEN ZoomTo(RatMul(zoom, IF delta > 0 THEN WHEEL_IN_FACTOR ELSE WHEEL_OUT_FACTOR))
       ELSE /\ emitted' = <<>>
            /\ UNCHANGED <<tracks, widgets, zoom, uuids, gesture>>

-----------------------------------------------------------------------------
(* Timeline.add_track, from the toolbar buttons and from load_clips *)

\* An add_track that puts the new track in front of the others.
AddTrackInFront(st, name, track_type) ==
    [tracks  |-> <<NewTrack(Len(st.tracks), name, track_type)>> \o st.tracks,
     widgets |-> <<NewWidget(zoom, Len(st.tracks))>> \o st.widgets,
     gesture |-> <<NoGesture>> \o st.gesture]

\* An add_track that leaves the new widget at the zoom it is constructed with.
AddTrackAtDefaultZoom(st, name, track_type) ==
    [tracks  |-> Append(st.tracks, NewTrack(Len(st.tracks), name, track_type)),
     widgets |-> Append(st.widgets, NewWidget(<<1, 1>>, Len(st.tracks))),
     gesture |-> Append(st.gesture, NoGesture)]

\* The tracks, widgets and press history after add_track(name, track_type).
AddTrack(st, name, track_type) ==
    [tracks  |-> Append(st.tracks, NewTrack(Len(st.tracks), name, track_type)),
     widgets |-> Append(st.widgets, NewWidget(zoom, Len(st.tracks))),
     gesture |-> Append(st.gesture, NoGesture)]

TrackButtons == {"VIDEO", "AUDIO"}

AddTrackButton(track_type) ==
    /\ CallTick
    /\ Returns
    /\ call' = NoCall
    /\ Len(tracks) < MaxTracks
    /\ LET st == AddTrack([tracks |-> tracks, widgets |-> widgets, gesture |-> gesture],
                          IF track_type = "VIDEO" THEN "Video" ELSE "Audio", track_type)
       IN  /\ tracks' = st.tracks
           /\ widgets' = st.widgets
           /\ gesture' = st.gesture
    /\ emitted' = <<>>
    /\ UNCHANGED <<zoom, uuids>>

-----------------------------------------------------------------------------
(* Direct calls: Timeline.add_clip with a caller's clip, the clip_split      *)
(* signal (Timeline._on_clip_split) and TimelineTrackWidget._delete_clip     *)
(* with a caller's handle                                                    *)

ApiClip(base, track_index, start_time, duration) ==
    [id |-> [base |-> base, splits |-> 0],
     name |-> [base |-> "clip", copies |-> 0],
     file_path |-> "clip.mp4",
     track_index |-> track_index,
     start_time |-> start_time,
     duration |-> duration,
     in_point |-> 0,
     out_point |-> duration,
     color |-> "accent"]

\* Clips a caller hands to add_clip: in range, and with a negative start or a
\* duration under the floor.
ApiClips ==
    { ApiClip(11, 0, 0, 1000), ApiClip(12, 1, 500, 1000), ApiClip(13, 0, -100, 200) }
ApiTrackIndexes == {-1, 0, 1, 2}

AddClipCall(track_index, clip) ==
    /\ CallTick
    /\ Returns
    /\ Len(AllClips) < MaxClips
    /\ call' = [op |-> "add_clip", track_index |-> track_index, clip |-> clip]
    /\ tracks' = AddClip(tracks, track_index, clip)
    /\ emitted' = <<>>
    /\ UNCHANGED <<widgets, zoom, uuids, gesture>>

\* Handles a caller may hold: a clip as stored, a stored clip as it was
\* before a move (same id, other start_time), and a clip no track holds.
StoredClips == {AllClips[k] : k \in 1..Len(AllClips)}
Stale(c) == [c EXCEPT !.start_time = @ + 500]
AbsentClip == [ApiClip(0, 0, 0, 1000) EXCEPT !.id = AbsentId]
Handles == StoredClips \cup {Stale(c) : c \in StoredClips} \cup {AbsentClip}
SplitTimes == {0, 500, 1000, 1200}

ClipSplitCall(clip, split_time) ==
    /\ CallTick
    /\ Returns
    /\ call' = [op |-> "clip_split", clip |-> clip, split_time |-> split_time]
    /\ tracks' = OnClipSplit(tracks, clip, split_time)
    /\ gesture' = GestureAfterSplit(tracks, clip, split_time)
    /\ emitted' = IF SplitApplies(tracks, clip, split_time)
                  THEN <<"clip_changed">> ELSE <<>>
    /\ UNCHANGED <<widgets, zoom, uuids>>

DeleteClipCall(w, clip) ==
    /\ CallTick
    /\ Returns
    /\ call' = [op |-> "delete_clip", widget |-> w, clip |-> clip]
    /\ LET j == IndexOfClip(tracks[w].clips, clip)
       IN  IF j # 0
           THEN /\ tracks' = [tracks EXCEPT ![w].clips = RemoveAt(@, j)]
                /\ widgets' = [widgets EXCEPT ![w].selected_clip =
                                  IF @ = Some(clip) THEN NoClip ELSE @]
                /\ gesture' = GestureAfterRemove(w, j)
                /\ emitted' = <<"clip_deleted", "clip_changed">>
           ELSE /\ emitted' = <<>>
                /\ UNCHANGED <<tracks, widgets, gesture>>
    /\ UNCHANGED <<zoom, uuids>>

-----------------------------------------------------------------------------
(* Timeline.get_clips_data, Timeline.clear_tracks and Timeline.load_clips    *)
(*                                                                           *)
(* A persisted record is a function from the keys it has to their values.    *)
(* The value under "track_index" carries its Python type, an int or a str.   *)

IntValue(n) == [type |-> "int", value |-> n]
StrValue(str) == [type |-> "str", value |-> str]

\* A serialiser that leaves out the out_point of a clip.
ClipRecordWithoutOutPoint(c) ==
    [id |-> c.id, name |-> c.name, file_path |-> c.file_path,
     track_index |-> IntValue(c.track_index),
     start_time |-> c.start_time, duration |-> c.duration,
     in_point |-> c.in_point, color |-> c.color]

ClipRecord(c) ==
    [id |-> c.id, name |-> c.name, file_path |-> c.file_path,
     track_index |-> IntValue(c.track_index),
     start_time |-> c.start_time, duration |-> c.duration,
     in_point |-> c.in_point, out_point |-> c.out_point, color |-> c.color]

GetClipsData(trks) ==
    LET RECURSIVE Flat(_)
        Flat(p) == IF p > Len(trks) THEN <<>> ELSE trks[p].clips \o Flat(p + 1)
        clips == Flat(1)
    IN  [k \in 1..Len(clips) |-> ClipRecord(clips[k])]

ClearTracks(trks) == [p \in 1..Len(trks) |-> [trks[p] EXCEPT !.clips = <<>>]]

\* dict.get(key, default)
Get(data, key, default) == IF key \in DOMAIN data THEN data[key] ELSE default

TrackName(track_idx) == "Track " \o ToString(track_idx + 1)

\* while len(self._tracks) <= track_idx: add_track(...), the type chosen by
\* the parity of track_idx.
RECURSIVE EnsureTrack(_, _)
EnsureTrack(st, track_idx) ==
    IF Len(st.tracks) <= track_idx
    THEN EnsureTrack(AddTrack(st, TrackName(track_idx),
                              IF track_idx % 2 = 0 THEN "VIDEO" ELSE "AUDIO"),
                     track_idx)
    ELSE st

RequiredKeys == {"id", "name", "file_path"}

\* One pass of the loop body of load_clips over the record data; st holds the
\* tracks, widgets and press history, and st.raised the exception that left
\* the body ("NONE" when it was caught or none was raised).
LoadRecord(st, data) ==
    LET track_idx == Get(data, "track_index", IntValue(0))
    IN  IF track_idx.type # "int"
        THEN [st EXCEPT !.raised = "TypeError"]
        ELSE LET k == track_idx.value
                 made == EnsureTrack([tracks |-> st.tracks, widgets |-> st.widgets,
                                      gesture |-> st.gesture], k)
                 grown == [st EXCEPT !.tracks = made.tracks,
                                     !.widgets = made.widgets,
                                     !.gesture = made.gesture]
                 clip == [id |-> data["id"],
                          name |-> data["name"],
                          file_path |-> data["file_path"],
                          track_index |-> k,
                          start_time |-> Get(data, "start_time", 0),
                          duration |-> Get(data, "duration", 1000),
                          in_point |-> Get(data, "in_point", 0),
                          out_point |-> Get(data, "out_point", 0),
                          color |-> Get(data, "color", "accent")]
                 n == Len(grown.tracks)
             IN  IF ~(RequiredKeys \subseteq DOMAIN data)
                 THEN grown
                 ELSE IF k < -n
                 THEN [grown EXCEPT !.raised = "IndexError"]
                 ELSE [grown EXCEPT
                          !.tracks[IF k < 0 THEN n + k + 1 ELSE k + 1].clips =
                              Append(@, clip)]

RECURSIVE LoadLoop(_, _)
LoadLoop(st, clips_data) ==
    IF clips_data = <<>> \/ st.raised # "NONE" THEN st
    ELSE LoadLoop(LoadRecord(st, Head(clips_data)), Tail(clips_data))

\* The state after load_clips(clips_data).
LoadClips(clips_data) ==
    LoadLoop([tracks |-> ClearTracks(tracks), widgets |-> widgets,
              gesture |-> [w \in DOMAIN gesture |->
                              IF gesture[w].slot # 0
                              THEN [gesture[w] EXCEPT !.kind = "GONE", !.slot = 0]
                              ELSE gesture[w]],
              raised |-> "NONE"],
             clips_data)

\* Persisted records: well formed, referring to a track beyond the default
\* two, with only the required keys, with a negative start and a duration
\* under the floor, without its id, without its name and referring to a
\* track beyond the default two, and with a str as track_index.
Without(data, key) == [k \in DOMAIN data \ {key} |-> data[k]]

Records ==
    LET ok == ClipRecord(ApiClip(21, 0, 0, 1000))
    IN  { ok,
          ClipRecord(ApiClip(22, MaxTracks - 2, 0, 1000)),
          ClipRecord(ApiClip(23, MaxTracks - 1, 0, 1000)),
          [id |-> ok.id, name |-> ok.name, file_path |-> ok.file_path],
          ClipRecord(ApiClip(24, 1, -100, 200)),
          Without(ok, "id"),
          Without(ClipRecord(ApiClip(25, MaxTracks - 2, 0, 1000)), "name"),
          [ok EXCEPT !.track_index = StrValue("1")] }

RecordLists == {<<>>} \cup {<<r>> : r \in Records}
                      \cup {<<r, q>> : r \in Records, q \in Records}

LoadClipsCall(clips_data) ==
    /\ CallTick
    /\ call' = [op |-> "load_clips", clips_data |-> clips_data]
    /\ LET st == LoadClips(clips_data)
       IN  /\ tracks' = st.tracks
           /\ widgets' = st.widgets
           /\ gesture' = st.gesture
           /\ raised' = st.raised
    /\ emitted' = <<>>
    /\ UNCHANGED <<zoom, uuids>>

\* load_clips(get_clips_data()); the history keeps the clips from before.
RoundTrip ==
    /\ CallTick
    /\ call' = [op |-> "round_trip", clips |-> AllClips]
    /\ LET st == LoadClips(GetClipsData(tracks))
       IN  /\ tracks' = st.tracks
           /\ widgets' = st.widgets
           /\ gesture' = st.gesture
           /\ raised' = st.raised
    /\ emitted' = <<>>
    /\ UNCHANGED <<zoom, uuids>>

-----------------------------------------------------------------------------
Next ==
    \/ \E a \in Assets : AddAssetToTimeline(a)
    \/ \E w \in 1..Len(widgets), x \in PointerXs : MousePress(w, x)
    \/ \E w \in 1..Len(widgets), x \in PointerXs : MouseMove(w, x)
    \/ \E w \in 1..Len(widgets) : MouseRelease(w)
    \/ \E w \in 1..Len(widgets), x \in PointerXs, choice \in MenuChoices :
           ContextMenu(w, x, choice)
    \/ \E id \in ClipIds \cup {AbsentId} : RemoveClip(id)
    \/ ZoomOut
    \/ ZoomIn
    \/ \E w \in 1..Len(widgets), o \in Offsets : SetOffset(w, o)

Spec == Init /\ [][Next]_vars

\* The Timeline driven through its methods and signals by a caller.
NextApi ==
    \/ \E track_type \in TrackButtons : AddTrackButton(track_type)
    \/ \E i \in ApiTrackIndexes, c \in ApiClips : AddClipCall(i, c)
    \/ \E h \in Handles, t \in SplitTimes : ClipSplitCall(h, t)
    \/ \E w \in 1..Len(widgets), h \in Handles : DeleteClipCall(w, h)
    \/ \E id \in ClipIds \cup {AbsentId} : RemoveClip(id)
    \/ \E clips_data \in RecordLists : LoadClipsCall(clips_data)
    \/ RoundTrip

SpecApi == Init /\ [][NextApi]_vars

\* The zoom and scroll state driven by every source of zoom changes.
NextZoom ==
    \/ \E z \in ZoomCalls : SetZoomCall(z)
    \/ \E factor \in {ZOOM_OUT_FACTOR, ZOOM_IN_FACTOR} : ToolbarZoom(factor)
    \/ \E ctrl \in BOOLEAN, delta \in WheelDeltas : WheelEvent(ctrl, delta)
    \/ \E w \in 1..Len(widgets), o \in ZoomOffsets : SetOffset(w, o)

SpecZoom == Init /\ [][NextZoom]_vars

\* The editor's save logic with a gateway whose upload may fail.
NextEditor ==
    \/ \E a \in Assets, saved \in BOOLEAN : PlaceAsset(a, saved)
    \/ \E saved \in BOOLEAN : ClipChangedSlot(saved)
    \/ \E saved \in BOOLEAN : AutoSave(saved)

SpecEditor == Init /\ [][NextEditor]_vars

\* The track list and the zoom: tracks added from the toolbar and by
\* load_clips, interleaved with every source of zoom changes.
NextTracks ==
    \/ \E track_type \in TrackButtons : AddTrackButton(track_type)
    \/ \E clips_data \in RecordLists : LoadClipsCall(clips_data)
    \/ \E z \in ZoomCalls : SetZoomCall(z)
    \/ \E factor \in {ZOOM_OUT_FACTOR, ZOOM_IN_FACTOR} : ToolbarZoom(factor)
    \/ \E ctrl \in BOOLEAN, delta \in WheelDeltas : WheelEvent(ctrl, delta)

SpecTracks == Init /\ [][NextTracks]_vars

-----------------------------------------------------------------------------
(* Properties *)

\* Every <<track position, clip position>> that holds a clip.
Slots == UNION {{<<p, i>> : i \in 1..Len(tracks[p].clips)} : p \in 1..Len(tracks)}
ClipOf(s) == tracks[s[1]].clips[s[2]]

Count(seq, v) == Cardinality({k \in 1..Len(seq) : seq[k] = v})

\* The clip the last left press of widget w hit is still in its slot, and
\* that press chose the operation kind.
Pressed(w, kind) == gesture[w].kind = kind /\ gesture[w].slot # 0

\* C1: every clip satisfies out_point - in_point = duration (all clips are
\* created with in_point = 0 and out_point = duration), after any sequence of
\* left-trim samples, right-trim samples and in-bounds splits.
C1_OutMinusInIsDuration ==
    \A s \in Slots : ClipOf(s).out_point - ClipOf(s).in_point = ClipOf(s).duration

\* C2: during a left-trim gesture, after each sample the pressed clip's
\* in_point is its in_point at press plus (start_time at press - current
\* start_time): the shift does not accumulate over the samples.
C2_LeftTrimShiftFromPress ==
    \A w \in 1..Len(widgets) :
        (Pressed(w, "LEFT") /\ widgets[w].trimming /\ widgets[w].trim_handle = "LEFT")
        => LET c == tracks[w].clips[gesture[w].slot]
               c0 == gesture[w].clip[1]
           IN  c.in_point = c0.in_point + (c0.start_time - c.start_time)

\* C3: every clip on the timeline has duration >= 500 ms in every reachable
\* state (clips are created with duration >= 500).
C3_MinDuration ==
    \A s \in Slots : ClipOf(s).duration >= MIN_DURATION

\* C4: clip ids are unique across the whole timeline in every reachable state.
C4_UniqueIds ==
    \A s \in Slots, t \in Slots : s # t => ClipOf(s).id # ClipOf(t).id

\* C5: at most one of the flags dragging and trimming of a track widget is
\* set, in every reachable state.
C5_OneGestureFlag ==
    \A w \in 1..Len(widgets) : ~(widgets[w].dragging /\ widgets[w].trimming)

\* The clips of track w differ from before at most in slot i.
OnlySlotChanges(w, i) ==
    /\ \A p \in 1..Len(tracks) : p # w => tracks'[p] = tracks[p]
    /\ Len(tracks'[w].clips) = Len(tracks[w].clips)
    /\ \A k \in 1..Len(tracks[w].clips) :
           k # i => tracks'[w].clips[k] = tracks[w].clips[k]

\* What a sample may change of the clip, by the operation the press chose.
SampleKeeps(kind, old, new) ==
    CASE kind = "NONE" -> /\ new.duration = old.duration
                          /\ new.in_point = old.in_point
                          /\ new.out_point = old.out_point
      [] kind = "LEFT" -> new.out_point = old.out_point
      [] kind = "RIGHT" -> /\ new.start_time = old.start_time
                           /\ new.in_point = old.in_point

C6_Sample(w) ==
    LET g == gesture[w]
    IN  CASE g.kind \in {"LEFT", "RIGHT", "NONE"} /\ g.slot # 0 ->
               /\ OnlySlotChanges(w, g.slot)
               /\ SampleKeeps(g.kind, tracks[w].clips[g.slot], tracks'[w].clips[g.slot])
          [] g.kind \in {"MISS", "IDLE"} -> tracks' = tracks
          [] OTHER -> TRUE

\* C6: after a left press on clip C every pointer-move sample up to the next
\* release mutates only C, by the operation that press selected (also when an
\* earlier gesture was never released), and after a press that hits no clip
\* no sample mutates anything.
C6_SamplesFollowLastPress ==
    [][\A w \in 1..Len(widgets), x \in PointerXs : MouseMove(w, x) => C6_Sample(w)]_vars

\* The widget's own handle on the clip in gesture is the pressed clip, still
\* in the slot where the press found it.
DraggingPressed(w) ==
    /\ Pressed(w, "NONE")
    /\ DragBranch(widgets[w])
    /\ widgets[w].selected_clip = Some(tracks[w].clips[gesture[w].slot])

TrimmingPressed(w, handle) ==
    /\ Pressed(w, handle)
    /\ TrimBranch(widgets[w])
    /\ widgets[w].trim_handle = handle
    /\ widgets[w].trim_clip = Some(tracks[w].clips[gesture[w].slot])

C7_Sample(w, x) ==
    LET g == gesture[w]
        old == tracks[w].clips[g.slot]
        new == tracks'[w].clips[g.slot]
        dt == XToTime(widgets[w], x - g.x) - XToTime(widgets[w], 0)
    IN  /\ new.start_time = Max(0, g.clip[1].start_time + dt)
        /\ new.start_time >= 0
        /\ new.id = old.id
        /\ new.track_index = old.track_index
        /\ new.duration = old.duration
        /\ new.in_point = old.in_point
        /\ new.out_point = old.out_point

\* C7: every Move sample sets the dragged clip's start_time to
\* max(0, start_time at press + dt) and leaves its id, track_index, duration,
\* in_point and out_point as they were.
C7_MoveSample ==
    [][\A w \in 1..Len(widgets), x \in PointerXs :
           (MouseMove(w, x) /\ DraggingPressed(w)) => C7_Sample(w, x)]_vars

C8_Sample(w, x) ==
    LET g == gesture[w]
        old == tracks[w].clips[g.slot]
        new == tracks'[w].clips[g.slot]
        dt == XToTime(widgets[w], x) - XToTime(widgets[w], g.x)
    IN  /\ new.start_time = Max(0, g.clip[1].start_time + dt)
        /\ new.duration = Max(500, g.clip[1].duration + (g.clip[1].start_time - new.start_time))
        /\ new.duration >= 500
        /\ new.start_time >= 0
        /\ new.out_point = old.out_point

\* C8: every left-trim sample yields start_time = max(0, original_start + dt)
\* and duration = max(500, original_duration + (original_start - start_time)),
\* with the originals captured at press, and leaves out_point unchanged.
C8_LeftTrimSample ==
    [][\A w \in 1..Len(widgets), x \in PointerXs :
           (MouseMove(w, x) /\ TrimmingPressed(w, "LEFT")) => C8_Sample(w, x)]_vars

C9_Sample(w, x) ==
    LET g == gesture[w]
        old == tracks[w].clips[g.slot]
        new == tracks'[w].clips[g.slot]
        dt == XToTime(widgets[w], x) - XToTime(widgets[w], g.x)
    IN  /\ new.duration = Max(500, g.clip[1].duration + dt)
        /\ new.duration >= 500
        /\ new.start_time = old.start_time
        /\ new.in_point = old.in_point
        /\ new.out_point = new.in_point + new.duration

\* C9: every right-trim sample yields duration = max(500, original_duration
\* + dt), leaves start_time and in_point unchanged and sets out_point =
\* in_point + duration.
C9_RightTrimSample ==
    [][\A w \in 1..Len(widgets), x \in PointerXs :
           (MouseMove(w, x) /\ TrimmingPressed(w, "RIGHT")) => C9_Sample(w, x)]_vars

\* The clip under x is split by the menu entry at a time strictly inside it.
SplitInBounds(w, x) ==
    /\ ClipAt(w, x) # 0
    /\ LET clip == tracks[w].clips[ClipAt(w, x)]
           split_time == XToTime(widgets[w], x)
       IN  clip.start_time < split_time /\ split_time < EndTime(clip)

C10_Split(w, x) ==
    LET i == ClipAt(w, x)
        old == tracks[w].clips
        new == tracks'[w].clips
        clip == old[i]
        split_time == XToTime(widgets[w], x)
        first_duration == split_time - clip.start_time
    IN  /\ Len(new) = Len(old) + 1
        /\ new[i].id = clip.id
        /\ new[i].start_time = clip.start_time
        /\ new[i].in_point = clip.in_point
        /\ new[i].duration = first_duration
        /\ new[i].out_point = clip.in_point + first_duration
        /\ new[i + 1].start_time = split_time
        /\ new[i + 1].duration = clip.duration - first_duration
        /\ new[i + 1].in_point = clip.in_point + first_duration
        /\ new[i + 1].out_point = clip.out_point
        /\ \A k \in 1..Len(old) : k < i => new[k] = old[k]
        /\ \A k \in 1..Len(old) : k > i => new[k + 1] = old[k]
        /\ \A p \in 1..Len(tracks) : p # w => tracks'[p] = tracks[p]
        /\ Count(emitted', "clip_changed") = 1

\* C10: an in-bounds split replaces the clip's slot i by the first part and
\* inserts the second part at slot i + 1; the track holds one more clip, all
\* other clips keep their order, and exactly one clip_changed is emitted.
C10_SplitInPlace ==
    [][\A w \in 1..Len(widgets), x \in PointerXs :
           (ContextMenu(w, x, "split") /\ SplitInBounds(w, x)) => C10_Split(w, x)]_vars

-----------------------------------------------------------------------------
(* Properties of the direct calls *)

\* The split call is given a time outside the open interval of the passed
\* clip, or a clip whose id no track holds.
C11_Precondition(h, t) ==
    \/ t <= h.start_time
    \/ t >= EndTime(h)
    \/ TrackOfId(tracks, h.id) = 0

\* C11: a split with split_time <= start_time or split_time >= end_time
\* (boundaries included), or with a clip id held by no track, is a silent
\* no-op: every track's clips are unchanged, nothing is raised and no
\* clip_changed is emitted.
C11_SplitOutsideIsNoOp ==
    [][\A h \in Handles, t \in SplitTimes :
           (ClipSplitCall(h, t) /\ C11_Precondition(h, t))
           => /\ tracks' = tracks
              /\ raised' = "NONE"
              /\ Count(emitted', "clip_changed") = 0]_vars

C11_Witness ==
    /\ call.op = "clip_split"
    /\ call.clip \in StoredClips
    /\ call.split_time = EndTime(call.clip)
    /\ emitted = <<>>

\* The clip stored under an id: the first one the scan of the tracks finds.
StoredUnder(id) ==
    LET p == TrackOfId(tracks, id)
    IN  tracks[p].clips[IndexOfId(tracks[p].clips, id)]

\* C12: split works from the clip stored under the given id: a call with a
\* stale handle (same id, field values from before a move) gives the same
\* tracks and the same notification as a call with the re-fetched clip.
C12_SplitFromStored ==
    [][\A h \in Handles, t \in SplitTimes :
           (ClipSplitCall(h, t) /\ TrackOfId(tracks, h.id) # 0)
           => /\ tracks' = OnClipSplit(tracks, StoredUnder(h.id), t)
              /\ Count(emitted', "clip_changed") =
                     IF SplitApplies(tracks, StoredUnder(h.id), t) THEN 1 ELSE 0]_vars

\* The clip_deleted and clip_changed notifications among the emitted signals.
Notifications(signals) ==
    SelectSeq(signals, LAMBDA sig : sig \in {"clip_deleted", "clip_changed"})

\* Track p lost exactly one clip equal to c and no other track changed.
RemovedFrom(p, c) ==
    /\ \E j \in 1..Len(tracks[p].clips) :
           tracks[p].clips[j] = c /\ tracks'[p].clips = RemoveAt(tracks[p].clips, j)
    /\ \A q \in 1..Len(tracks) : q # p => tracks'[q] = tracks[q]

\* C13: every deletion of a present clip, by the track's delete entry or by
\* remove_clip(id), removes exactly that clip and makes the Timeline emit one
\* clip_deleted followed by one clip_changed.
C13_DeletionNotifies ==
    [][/\ \A id \in ClipIds :
              RemoveClip(id)
              => /\ RemovedFrom(TrackOfId(tracks, id), StoredUnder(id))
                 /\ Notifications(emitted') = <<"clip_deleted", "clip_changed">>
       /\ \A w \in 1..Len(widgets), h \in StoredClips :
              (DeleteClipCall(w, h) /\ IndexOfClip(tracks[w].clips, h) # 0)
              => /\ RemovedFrom(w, h)
                 /\ Notifications(emitted') = <<"clip_deleted", "clip_changed">>]_vars

\* C14: deleting a clip id (remove_clip) or a clip (the track's delete) that
\* no track holds raises nothing, emits neither clip_deleted nor clip_changed
\* and leaves every track's clips unchanged.
C14_DeleteAbsentIsNoOp ==
    [][/\ \A id \in {AbsentId} \ ClipIds :
              RemoveClip(id)
              => tracks' = tracks /\ raised' = "NONE" /\ Notifications(emitted') = <<>>
       /\ \A w \in 1..Len(widgets), h \in Handles \ StoredClips :
              DeleteClipCall(w, h)
              => tracks' = tracks /\ raised' = "NONE" /\ Notifications(emitted') = <<>>]_vars

C14_Witness ==
    /\ call.op = "delete_clip"
    /\ call.clip \notin StoredClips
    /\ call.clip.id \in ClipIds
    /\ emitted = <<>>

-----------------------------------------------------------------------------
(* Properties of the gestures *)

\* The last press on widget w hit a clip that is still in the track, and no
\* context menu was opened on the track since: up to now the gesture is a
\* press followed by pointer-move samples.
C15_Gesture(w) ==
    gesture[w].kind \in {"LEFT", "RIGHT", "NONE"} /\ ~gesture[w].interrupted

\* C15: in a Move or Trim gesture (press on a clip, n >= 0 samples, release)
\* no sample emits clip_changed and the release emits exactly one.
C15_OneNotificationPerGesture ==
    [][/\ Count(emitted', "clip_changed") > 0
              => \A w \in 1..Len(widgets), x \in PointerXs : ~MouseMove(w, x)
       /\ \A w \in 1..Len(widgets) :
              (C15_Gesture(w) /\ MouseRelease(w)) => emitted' = <<"clip_changed">>]_vars

\* A released move: the only clip of the first track no longer starts at 0.
C15_Witness ==
    /\ call = NoCall
    /\ emitted = <<"clip_changed">>
    /\ \A w \in 1..Len(widgets) : gesture[w] = NoGesture
    /\ Len(tracks[1].clips) = 1
    /\ tracks[1].clips[1].start_time > 0
    /\ tracks[1].clips[1].in_point = 0

-----------------------------------------------------------------------------
(* Properties of load_clips, get_clips_data and add_clip *)

\* The two sequences hold the same clips the same number of times.
SameClips(a, b) ==
    \A c \in {a[k] : k \in 1..Len(a)} \cup {b[k] : k \in 1..Len(b)} :
        Count(a, c) = Count(b, c)

\* C16: load_clips(get_clips_data()) yields a timeline whose clips are
\* field for field those of before, none lost, duplicated or altered, in any
\* order.
C16_RoundTrip ==
    call.op = "round_trip" => raised = "NONE" /\ SameClips(AllClips, call.clips)

\* A round trip of at least two clips that leaves clips on two tracks.
C16_Witness ==
    /\ call.op = "round_trip"
    /\ Len(call.clips) >= 2
    /\ Cardinality({p \in 1..Len(tracks) : tracks[p].clips # <<>>}) >= 2

\* A record with its required keys and an int as track_index.
WellFormed(data) ==
    /\ RequiredKeys \subseteq DOMAIN data
    /\ Get(data, "track_index", IntValue(0)).type = "int"

\* C17: load_clips never aborts the load: each malformed record (a required
\* key missing, a track_index that is not an int) is skipped, every
\* well-formed record is loaded, also after a malformed one, and nothing is
\* raised.
C17_LoadSkipsMalformed ==
    call.op = "load_clips"
    => LET good == SelectSeq(call.clips_data, WellFormed)
       IN  /\ raised = "NONE"
           /\ Len(AllClips) = Len(good)
           /\ \A k \in 1..Len(good) : good[k].id \in ClipIds

\* C18: the tracks load_clips creates for a record whose track_index is not
\* below the number of tracks reach up to that index, and the created track
\* at index i is a Video track when i is even and an Audio track when odd.
C18_CreatedTracksAlternate ==
    [][call'.op = "load_clips"
       => /\ \A k \in 1..Len(call'.clips_data) :
                 (raised' = "NONE" /\ WellFormed(call'.clips_data[k]))
                 => Len(tracks') > Get(call'.clips_data[k], "track_index",
                                       IntValue(0)).value
          /\ \A p \in (Len(tracks) + 1)..Len(tracks') :
                 tracks'[p].track_type = IF (p - 1) % 2 = 0 THEN "VIDEO" ELSE "AUDIO"]_vars

\* C19: a clip handed to add_clip, or a record handed to load_clips, with
\* start_time < 0 or duration < 500 is in the track with start_time >= 0 and
\* duration >= 500, and nothing is raised.
C19_InputIsClamped ==
    /\ (call.op = "add_clip" /\ 0 <= call.track_index /\ call.track_index < Len(tracks))
       => LET clips == tracks[call.track_index + 1].clips
              c == clips[Len(clips)]
          IN  /\ raised = "NONE"
              /\ c.id = call.clip.id
              /\ c.start_time >= 0
              /\ c.duration >= MIN_DURATION
    /\ (call.op = "load_clips" /\ raised = "NONE")
       => \A s \in Slots : ClipOf(s).start_time >= 0 /\ ClipOf(s).duration >= MIN_DURATION

-----------------------------------------------------------------------------
(* Properties of the clip positions *)

\* C20: every clip has start_time >= 0 in every reachable state, for clips
\* created by the append policy and then moved, trimmed, split and deleted
\* with pointer positions of either sign.
C20_StartNonNegative ==
    \A s \in Slots : ClipOf(s).start_time >= 0

\* A clip pressed on its body at a positive start_time is dragged to time 0.
C20_Witness ==
    \E w \in 1..Len(widgets) :
        /\ Pressed(w, "NONE")
        /\ DragBranch(widgets[w])
        /\ gesture[w].clip[1].start_time > 0
        /\ tracks[w].clips[gesture[w].slot].start_time = 0

-----------------------------------------------------------------------------
(* Properties of the left-trim floor *)

C21_Sample(w, x) ==
    LET g == gesture[w]
        c0 == g.clip[1]
        new == tracks'[w].clips[g.slot]
        dt == XToTime(widgets[w], x) - XToTime(widgets[w], g.x)
        new_start == Max(0, c0.start_time + dt)
        unfloored == c0.duration + (c0.start_time - new_start)
    IN  /\ new.start_time = new_start
        /\ unfloored < MIN_DURATION
               => new.duration = MIN_DURATION /\ EndTime(new) > EndTime(c0)
        /\ unfloored >= MIN_DURATION => EndTime(new) = EndTime(c0)

\* C21: a left-trim sample that would bring the duration below 500 ms sets
\* the duration to 500 while start_time still follows the pointer, so the
\* clip's end_time exceeds the end_time it had at press; in every left-trim
\* sample where the floor is not applied the clip's end_time is its end_time
\* at press.
C21_LeftTrimFloor ==
    [][\A w \in 1..Len(widgets), x \in PointerXs :
           (TrimmingPressed(w, "LEFT") /\ MouseMove(w, x)) => C21_Sample(w, x)]_vars

-----------------------------------------------------------------------------
(* Properties of the move delta *)

\* The clip a move sample at x would store if the widget's scroll offset
\* were o.
C22_SampleAt(w, o, x) ==
    LET wd == widgets[w]
        i == IndexOfId(tracks[w].clips, wd.selected_clip[1].id)
    IN  Dragged([wd EXCEPT !.offset = o], tracks[w].clips[i], x)

\* C22: at a fixed zoom the time delta a move derives from a pixel delta,
\* x_to_time(dx) - x_to_time(0), is the same for every scroll offset: while a
\* move gesture is in progress, a sample at a given pointer position stores
\* the same start_time whatever the offset is.
C22_MoveDeltaIgnoresOffset ==
    \A w \in 1..Len(widgets) :
        (DragBranch(widgets[w])
         /\ IndexOfId(tracks[w].clips, widgets[w].selected_clip[1].id) # 0)
            => \A x \in PointerXs, o \in Offsets :
                   C22_SampleAt(w, o, x).start_time
                       = C22_SampleAt(w, widgets[w].offset, x).start_time

-----------------------------------------------------------------------------
(* Properties of the coordinate mapper and of the zoom factor *)

MapperTimes == 0..120 \cup {999, 1000, 1234, 2999, 5000}

\* ceil(1000 / (100 * zoom)): the time span of one pixel, rounded up.
PixelSpan(z) ==
    (MS_PER_SECOND * z[2] + BASE_PPS * z[1] - 1) \div (BASE_PPS * z[1])

RoundTripError(wd, t) == Abs(XToTime(wd, TimeToX(wd, t)) - t)

\* C23: for every time t >= 0, every zoom in [0.1, 10] and every offset,
\* x_to_time(time_to_x(t)) differs from t by at most the time span of one
\* pixel at that zoom, ceil(1000 / (100 * zoom)) ms.
C23_MapperRoundTrip ==
    \A w \in 1..Len(widgets), t \in MapperTimes :
        RoundTripError(widgets[w], t) <= PixelSpan(widgets[w].zoom)

\* A widget scrolled and zoomed by the handlers where the round trip of some
\* time is off by exactly the span of one pixel, and one where it is exact.
C23_Witness ==
    \E w \in 1..Len(widgets) :
        /\ widgets[w].zoom # <<1, 1>>
        /\ widgets[w].offset # 0
        /\ \E t \in MapperTimes :
               RoundTripError(widgets[w], t) = PixelSpan(widgets[w].zoom)
        /\ \E t \in MapperTimes : t > 0 /\ RoundTripError(widgets[w], t) = 0

ZoomInRange(z) == ~RatLess(z, ZOOM_MIN) /\ ~RatLess(ZOOM_MAX, z)

\* C24: after any sequence of set_zoom calls with any value, toolbar steps
\* and Ctrl+wheel steps, the Timeline's zoom factor (and the copy each track
\* widget holds) lies in [0.1, 10.0].
C24_ZoomClamped ==
    /\ ZoomInRange(zoom)
    /\ \A w \in 1..Len(widgets) : ZoomInRange(widgets[w].zoom)

\* A Ctrl+wheel step up taken at the upper limit left the zoom at the limit.
C24_Witness == call.op = "wheel" /\ call.ctrl /\ call.delta > 0 /\ zoom = ZOOM_MAX

-----------------------------------------------------------------------------
(* Properties of asset placement *)

\* The latest end_time among the clips a track holds, 0 for an empty track.
TrackEnd(clips) ==
    IF clips = <<>> THEN 0
    ELSE LET i == CHOOSE i \in 1..Len(clips) :
                      \A j \in 1..Len(clips) : EndTime(clips[j]) <= EndTime(clips[i])
         IN  EndTime(clips[i])

\* The track position p received a clip in this step.
Received(p) == Len(tracks'[p].clips) = Len(tracks[p].clips) + 1

Placed(p) == tracks'[p].clips[Len(tracks'[p].clips)]

\* C25: a clip created by placing an asset on a track starts at the end_time
\* of the clip that ends last on that track, and at 0 when the track is
\* empty, whatever moves, trims, splits and deletes came before.
C25_AppendPolicy ==
    [][uuids' # uuids =>
          \A p \in 1..Len(tracks) :
              Received(p) => Placed(p).start_time = TrackEnd(tracks[p].clips)]_vars

\* The second placed clip sits behind a track whose clips were split and
\* moved: it starts where the moved first clip ends, not where the clip
\* before it in the collection ends.
C25_Witness ==
    \E p \in 1..Len(tracks) :
        LET clips == tracks[p].clips
            n == Len(clips)
        IN  /\ n = 3
            /\ clips[n].id = [base |-> 2, splits |-> 0]
            /\ clips[n].start_time = TrackEnd(SubSeq(clips, 1, n - 1))
            /\ clips[n].start_time > EndTime(clips[n - 1])
            /\ clips[n].start_time # DEFAULT_CLIP_DURATION

C26_Placed(asset) ==
    LET p == IF asset.asset_type \in {"VIDEO", "IMAGE"} THEN 1 ELSE 2
        d == IF asset.duration_ms > 0 THEN asset.duration_ms ELSE DEFAULT_CLIP_DURATION
    IN  /\ tracks' = [tracks EXCEPT ![p].clips = Append(@, Placed(p))]
        /\ Placed(p).track_index = p - 1
        /\ Placed(p).duration = d
        /\ Placed(p).in_point = 0
        /\ Placed(p).out_point = d

\* C26: placing an asset creates exactly one clip, on track 0 for a video or
\* an image and on track 1 for audio; its duration is the asset's duration_ms
\* when that is > 0 and 5000 ms otherwise, with in_point = 0 and
\* out_point = duration; no other clip changes.
C26_PlacementCreatesOneClip ==
    [][uuids' # uuids =>
          \A asset \in Assets : AddAssetToTimeline(asset) => C26_Placed(asset)]_vars

\* An image without a duration was placed on track 0 with 5000 ms and an
\* audio asset on track 1 with its own duration.
C26_Witness ==
    /\ uuids = 2
    /\ steps = 2
    /\ Len(tracks[1].clips) = 1 /\ Len(tracks[2].clips) = 1
    /\ tracks[1].clips[1].name.base = "logo"
    /\ tracks[1].clips[1].duration = DEFAULT_CLIP_DURATION
    /\ tracks[2].clips[1].name.base = "song"
    /\ tracks[2].clips[1].duration = 2000
    /\ \A s \in Slots : ClipOf(s).in_point = 0 /\ ClipOf(s).out_point = ClipOf(s).duration

-----------------------------------------------------------------------------
(* Properties of the track list *)

FreshTimeline ==
    /\ Len(tracks) = 2
    /\ tracks[1].track_type = "VIDEO" /\ tracks[1].clips = <<>>
    /\ tracks[2].track_type = "AUDIO" /\ tracks[2].clips = <<>>

\* What makes a track the track it is: everything but the clips it holds.
TrackIdentity(t) == [id |-> t.id, name |-> t.name, track_type |-> t.track_type]

TracksKept ==
    /\ Len(tracks') >= Len(tracks)
    /\ \A p \in 1..Len(tracks) : TrackIdentity(tracks'[p]) = TrackIdentity(tracks[p])

TrackAppended(track_type) ==
    /\ Len(tracks') = Len(tracks) + 1
    /\ SubSeq(tracks', 1, Len(tracks)) = tracks
    /\ tracks'[Len(tracks')].clips = <<>>
    /\ tracks'[Len(tracks')].id = Len(tracks)
    /\ tracks'[Len(tracks')].track_type = track_type

\* C27: a fresh Timeline has exactly two tracks, Video at index 0 and Audio
\* at index 1, both empty; add_track appends one empty track at index =
\* previous track count and changes no existing track; in every step
\* (load_clips with its clear_tracks included) the number of tracks does not
\* decrease and the track at each index stays the same track.
C27_TracksAppendOnly ==
    /\ FreshTimeline
    /\ [][/\ TracksKept
          /\ Len(tracks') # Len(tracks) =>
                 \A track_type \in TrackButtons :
                     AddTrackButton(track_type) => TrackAppended(track_type)]_vars

\* load_clips made tracks behind a track added from the toolbar, which is
\* still the third track.
C27_Witness ==
    /\ call.op = "load_clips"
    /\ Len(tracks) = MaxTracks
    /\ TrackIdentity(tracks[1]) = TrackIdentity(NewTrack(0, "Video 1", "VIDEO"))
    /\ TrackIdentity(tracks[2]) = TrackIdentity(NewTrack(1, "Audio 1", "AUDIO"))
    /\ tracks[3].name \in {"Video", "Audio"} /\ tracks[3].id = 2

-----------------------------------------------------------------------------
(* Properties of add_clip and get_all_clips *)

\* Number of clips held by the tracks before position p.
RECURSIVE ClipsBefore(_, _)
ClipsBefore(trks, p) ==
    IF p <= 1 THEN 0 ELSE ClipsBefore(trks, p - 1) + Len(trks[p - 1].clips)

\* all is the clips of trks in track order and, within a track, in the order
\* of the track's collection.
Flattens(all, trks) ==
    /\ Len(all) = ClipsBefore(trks, Len(trks) + 1)
    /\ \A p \in 1..Len(trks) : \A i \in 1..Len(trks[p].clips) :
           all[ClipsBefore(trks, p) + i] = trks[p].clips[i]

C28_Effect(track_index, clip) ==
    /\ raised' = "NONE"
    /\ emitted' = <<>>
    /\ UNCHANGED <<widgets, zoom>>
    /\ IF 0 <= track_index /\ track_index < Len(tracks)
       THEN tracks' = [tracks EXCEPT ![track_index + 1].clips = Append(@, clip)]
       ELSE tracks' = tracks
    /\ Flattens(AllClips', tracks')

\* C28: add_clip(track_index, clip) with 0 <= track_index < track count
\* appends the clip as the last element of that track's collection, with no
\* overlap check, and changes no other clip or track; with any other
\* track_index it changes nothing and raises nothing; get_all_clips then
\* returns the clips of all tracks in track order and, within a track, in
\* insertion order.
C28_AddClipAppends ==
    [][call'.op = "add_clip" => C28_Effect(call'.track_index, call'.clip)]_vars

Overlap(a, b) == a.start_time < EndTime(b) /\ b.start_time < EndTime(a)

\* add_clip stored a clip behind a clip of the same track that it overlaps.
C28_Witness ==
    /\ call.op = "add_clip"
    /\ 0 <= call.track_index /\ call.track_index < Len(tracks)
    /\ LET clips == tracks[call.track_index + 1].clips
       IN  /\ Len(clips) >= 2
           /\ clips[Len(clips)] = call.clip
           /\ Overlap(clips[Len(clips) - 1], call.clip)
    /\ \E p \in 1..Len(tracks) : p > call.track_index + 1 /\ tracks[p].clips # <<>>

\* C29: in every reachable state each clip held by the track at position i
\* has track_index = i, and each clip is held by exactly one track.
C29_ClipsOnTheirTrack ==
    /\ \A s \in Slots : ClipOf(s).track_index = s[1] - 1
    /\ \A s, u \in Slots : ClipOf(s) = ClipOf(u) => s[1] = u[1]

-----------------------------------------------------------------------------
(* Properties of the hit test *)

NearLeft(wd, c, x) == Abs(x - TimeToX(wd, c.start_time)) <= TRIM_HANDLE_WIDTH
NearRight(wd, c, x) == Abs(x - TimeToX(wd, EndTime(c))) <= TRIM_HANDLE_WIDTH
OnBody(wd, c, x) == TimeToX(wd, c.start_time) <= x /\ x <= TimeToX(wd, EndTime(c))

\* x is on the clip or within the handle width of one of its edges.
Reaches(wd, c, x) == OnBody(wd, c, x) \/ NearLeft(wd, c, x) \/ NearRight(wd, c, x)

\* The clip at position i is the only clip of the track that x reaches.
OnlyReach(w, i, x) ==
    /\ Reaches(widgets[w], tracks[w].clips[i], x)
    /\ \A j \in 1..Len(tracks[w].clips) :
           j # i => ~Reaches(widgets[w], tracks[w].clips[j], x)

StartsTrim(w, c, handle) ==
    /\ widgets'[w].trimming
    /\ widgets'[w].trim_handle = handle
    /\ widgets'[w].trim_clip = Some(c)

StartsMove(w, c) ==
    /\ widgets'[w].dragging
    /\ widgets'[w].selected_clip = Some(c)
    /\ widgets'[w].drag_clip_start = c.start_time

C30_Press(w, i, x) ==
    LET wd == widgets[w]
        c == tracks[w].clips[i]
    IN  /\ NearLeft(wd, c, x) /\ ~NearRight(wd, c, x) => StartsTrim(w, c, "LEFT")
        /\ NearRight(wd, c, x) /\ ~NearLeft(wd, c, x) => StartsTrim(w, c, "RIGHT")
        /\ ~NearLeft(wd, c, x) /\ ~NearRight(wd, c, x) => StartsMove(w, c)

\* C30: a press within 8 px of a clip's left edge starts a left trim of that
\* clip, a press within 8 px of its right edge starts a right trim, and a
\* press anywhere else on its body starts a move, for pointer positions on
\* either side of the edge and for clips of any pixel width (stated for a
\* pointer that reaches one clip only and is not near both of its edges).
C30_HitTest ==
    [][\A w \in 1..Len(widgets), x \in PointerXs :
           \A i \in 1..Len(tracks[w].clips) :
               (OnlyReach(w, i, x) /\ MousePress(w, x)) => C30_Press(w, i, x)]_vars

-----------------------------------------------------------------------------
(* Properties of the frame of a sample and of drift *)

\* A gesture on the pressed clip is in progress: the widget's handle of the
\* running branch is the pressed clip, still in its slot.
GestureOnPressed(w) ==
    \/ DraggingPressed(w)
    \/ TrimmingPressed(w, "LEFT")
    \/ TrimmingPressed(w, "RIGHT")

IdsOf(clips) == [k \in 1..Len(clips) |-> clips[k].id]

\* C31: each Move or Trim sample replaces exactly one slot of the pressed
\* track, the slot of the clip that was under the press, and leaves the
\* number of clips, the order of the ids in that track, every other clip of
\* the track and every clip of every other track unchanged, also after
\* earlier splits of the same clip.
C31_SampleFrame ==
    [][\A w \in 1..Len(widgets), x \in PointerXs :
           (GestureOnPressed(w) /\ MouseMove(w, x))
           => /\ OnlySlotChanges(w, gesture[w].slot)
              /\ IdsOf(tracks'[w].clips) = IdsOf(tracks[w].clips)]_vars

\* The clip a sample at x yields when it is computed from the clip at press
\* c0, the press position x0 and x alone, by the operation the press chose.
FromPress(wd, kind, c0, x0, x) ==
    LET dt == XToTime(wd, x) - XToTime(wd, x0)
        left_start == Max(0, c0.start_time + dt)
        right_duration == Max(MIN_DURATION, c0.duration + dt)
    IN  CASE kind = "NONE" ->
                 [c0 EXCEPT !.start_time =
                      Max(0, c0.start_time + XToTime(wd, x - x0) - XToTime(wd, 0))]
          [] kind = "LEFT" ->
                 [c0 EXCEPT !.start_time = left_start,
                            !.duration = Max(MIN_DURATION,
                                             c0.duration + (c0.start_time - left_start)),
                            !.in_point = c0.in_point + (c0.start_time - left_start)]
          [] kind = "RIGHT" ->
                 [c0 EXCEPT !.duration = right_duration,
                            !.out_point = c0.in_point + right_duration]

\* C32: within one Move, Left-trim or Right-trim gesture the clip's state
\* after a pointer-move sample depends only on the clip's state at press and
\* the pointer x of the sample, not on the samples in between; a sample back
\* at the press x gives the clip its state at press.
C32_NoDrift ==
    [][\A w \in 1..Len(widgets), x \in PointerXs :
           (GestureOnPressed(w) /\ MouseMove(w, x))
           => LET g == gesture[w]
              IN  /\ tracks'[w].clips[g.slot]
                         = FromPress(widgets[w], g.kind, g.clip[1], g.x, x)
                  /\ x = g.x /\ g.clip[1].duration >= MIN_DURATION
                         => tracks'[w].clips[g.slot] = g.clip[1]]_vars

\* C33: every clip has 0 <= in_point <= out_point in every reachable state,
\* for clips created by asset placement and then moved, trimmed and split.
C33_SourceRangeOrdered ==
    \A s \in Slots : 0 <= ClipOf(s).in_point /\ ClipOf(s).in_point <= ClipOf(s).out_point

-----------------------------------------------------------------------------
(* Properties of the release *)

Idle(wd) ==
    /\ ~wd.dragging
    /\ ~wd.trimming
    /\ wd.trim_handle = "NONE"
    /\ wd.trim_clip = NoClip

\* C34: every release returns the track widget to Idle (dragging and
\* trimming false, trim handle NONE, no trim clip) whatever the state before
\* it, and a release that arrives when neither flag is set emits no
\* clip_moved or clip_trimmed, hence no clip_changed.
C34_ReleaseGoesIdle ==
    [][\A w \in 1..Len(widgets) :
           MouseRelease(w)
           => /\ Idle(widgets'[w])
              /\ (~widgets[w].dragging /\ ~widgets[w].trimming) => emitted' = <<>>]_vars

\* The third handler after a placement and a press on a trim handle was the
\* release: the widget is Idle again and the trim was notified.
C34_Witness ==
    /\ steps = 3
    /\ uuids = 1
    /\ call = NoCall
    /\ emitted = <<"clip_changed">>
    /\ \E w \in 1..Len(widgets) :
           /\ Idle(widgets[w])
           /\ widgets[w].trim_original_duration > 0
           /\ widgets[w].selected_clip # NoClip
           /\ Len(tracks[w].clips) = 1

-----------------------------------------------------------------------------
(* Properties of load_clips *)

\* C35: a record that load_clips skips as malformed has no effect: the
\* number, types and names of the tracks and the clips of every track are
\* those the same call gives without that record in the list, also when the
\* skipped record names a track_index beyond the current track count.
C35_SkippedRecordHasNoEffect ==
    [][(call'.op = "load_clips" /\ raised' = "NONE")
       => tracks' = LoadClips(SelectSeq(call'.clips_data, WellFormed)).tracks]_vars

\* The ids of the records of clips_data that name the track index k, in order.
IdsForTrack(clips_data, k) ==
    LET Here(data) == Get(data, "track_index", IntValue(0)).value = k
        mine == SelectSeq(clips_data, Here)
    IN  [j \in 1..Len(mine) |-> mine[j].id]

C36_Loaded(clips_data) ==
    LET good == SelectSeq(clips_data, WellFormed)
    IN  /\ \A p \in 1..Len(tracks') :
               /\ IdsOf(tracks'[p].clips) = IdsForTrack(good, p - 1)
               /\ \A i \in 1..Len(tracks'[p].clips) :
                      tracks'[p].clips[i].track_index = p - 1
        /\ Len(AllClips') = Len(good)
        /\ Len(tracks') >= Len(tracks)
        /\ emitted' = <<>>

\* C36: load_clips replaces the timeline's content: afterwards the clips are
\* exactly the well-formed records of the input, each in the track given by
\* its track_index, no clip from before the call survives, no track is
\* removed, and neither clip_changed nor clip_deleted is emitted.
C36_LoadReplaces ==
    [][call'.op = "load_clips" => C36_Loaded(call'.clips_data)]_vars

-----------------------------------------------------------------------------
(* Properties of the editor's save state *)

\* C37: a change notification whose immediate save fails leaves the project
\* marked as needing save, so that the next auto-save tick retries the save:
\* whenever the last save failed, needs_save is true, and needs_save is
\* cleared only by a save that succeeded.
C37_FailedSaveStaysMarked ==
    editor.save_failed => editor.needs_save

-----------------------------------------------------------------------------
(* Properties of the track widgets *)

\* C38: in every reachable state the track list and the track-widget list
\* have the same length with widget i bound to track i, and every track
\* widget's zoom equals the Timeline's clamped zoom, after any interleaving
\* of add_track, load_clips with track creation and zoom changes.
C38_WidgetsFollowTracks ==
    /\ Len(widgets) = Len(tracks)
    /\ \A i \in 1..Len(tracks) :
           /\ widgets[i].track = tracks[i].id
           /\ widgets[i].zoom = zoom
    /\ ZoomInRange(zoom)

\* load_clips created tracks behind a toolbar-added one while the zoom was
\* not the initial one.
C38_Witness ==
    /\ call.op = "load_clips"
    /\ Len(tracks) = MaxTracks
    /\ tracks[3].name \in {"Video", "Audio"}
    /\ zoom # <<1, 1>>
    /\ widgets[MaxTracks].zoom = zoom
====
